---- MODULE Spec2Model ----
(***************************************************************************)
(* A model of jerbs, a persistent multi-worker task queue kept in one      *)
(* SQLite file (src/src/lib.rs, schema version 2; src/src/db.rs, schema    *)
(* version 1).  The state is the content of the storage file plus, for     *)
(* every connection, its position inside the take transaction and the      *)
(* value the last call returned.                                           *)
(*                                                                         *)
(* Rows of a table with an INTEGER PRIMARY KEY that is never deleted from  *)
(* get the ids 1, 2, 3, ... in insertion order, so the task and job tables *)
(* are sequences and a row's id is its index.                              *)
(***************************************************************************)
EXTENDS Integers, Sequences, FiniteSets, Bags, TLC

\* Bounds of the model.
MaxTasks == 2
MaxJobs == 3

\* The inputs the operations draw from.
Workers == {"w1", "w2"}
Data == {"a", "b"}
Counts == {1, 2}
\* Option<i32>: <<>> is None (SQL NULL), <<p>> is Some(p).
None == <<>>
Some(p) == <<p>>
Priorities == {None, Some(-10), Some(10)}
Results == {0}
\* The inputs of new_job where the start and finish events are followed.
LogData == {"a"}
LogCounts == {2}
LogPriorities == {None}

DB_VERSION == 2
DB_VERSION_V1 == 1

VARIABLES
    meta,         \* table meta: its rows, each a version
    tables,       \* the names of the tables the storage file holds
    data_unique,  \* whether the task table's data column carries UNIQUE
    tasks,        \* table task (v1: table job): rows [count, data, priority]
    worker,       \* v1 table worker: rows [job, data]
    jobs,         \* table job of v2: rows [task, worker]
    job_start,    \* table job_start: a bag of rows [job]
    job_finish,   \* table job_finish: a bag of rows [job, result]
    pc,           \* per connection: its position in the take transaction
    sel,          \* per connection: the task id its JOB_Q query returned
    ret,          \* the last call that returned, and what it returned
    lc            \* the connection inside create or open: its next statement
                  \* and the store as it was when its transaction began

vars == <<meta, tables, data_unique, tasks, worker, jobs, job_start, job_finish,
          pc, sel, ret, lc>>
store == <<meta, tables, data_unique, tasks, worker, jobs, job_start, job_finish>>

\* The tables of a store of version 1 (db.rs) and of version 2 (lib.rs).
V1Tables == {"meta", "job", "worker"}
V2Tables == {"meta", "task", "job", "job_start", "job_finish"}

\* get_version: the version of the first row of meta; 0 stands for the
\* storage without a version row, which no build writes.
get_version == IF meta = <<>> THEN 0 ELSE meta[1]

\* The connection that runs create or open is outside any call.
LcIdle == [op |-> "idle", k |-> 0, snap |-> <<>>]

TaskIds == 1..Len(tasks)
JobIds == 1..Len(jobs)

NoRet == [op |-> "none", who |-> "", res |-> "", id |-> 0, data |-> ""]
Ret(op, who, res, id, data) ==
    [op |-> op, who |-> who, res |-> res, id |-> id, data |-> data]

----------------------------------------------------------------------------
\* Queries

\* COALESCE(x, 0)
Coalesce0(p) == IF p = None THEN 0 ELSE p[1]

\* SELECT count(1) FROM job WHERE task = ?
worker_count(t) == Cardinality({j \in JobIds : jobs[j].task = t})

\* Mutant: the filter admits a task whose count is already reached.
Candidates_OffByOne == {t \in TaskIds : worker_count(t) <= tasks[t].count}

\* The rows of JOB_Q before ORDER BY ... LIMIT 1.
Candidates == {t \in TaskIds : worker_count(t) < tasks[t].count}

\* Mutant: the order of db.rs, by id alone.
JobOrder_ById(a, b) == a <= b

\* Mutant: within a priority the task with more free slots comes first.
JobOrder_Balanced(a, b) ==
    \/ Coalesce0(tasks[a].priority) < Coalesce0(tasks[b].priority)
    \/ /\ Coalesce0(tasks[a].priority) = Coalesce0(tasks[b].priority)
       /\ \/ tasks[a].count - worker_count(a) > tasks[b].count - worker_count(b)
          \/ /\ tasks[a].count - worker_count(a) = tasks[b].count - worker_count(b)
             /\ a <= b

\* ORDER BY COALESCE(task.priority, 0), task.id
JobOrder(a, b) ==
    \/ Coalesce0(tasks[a].priority) < Coalesce0(tasks[b].priority)
    \/ /\ Coalesce0(tasks[a].priority) = Coalesce0(tasks[b].priority)
       /\ a <= b

\* JOB_Q of lib.rs: the first candidate, 0 when there is none.
JOB_Q ==
    IF Candidates = {} THEN 0
    ELSE CHOOSE t \in Candidates : \A u \in Candidates : JobOrder(t, u)

\* Db::worker_count of db.rs: SELECT count(1) FROM worker WHERE job = ?
worker_count_v1(t) == Cardinality({i \in DOMAIN worker : worker[i].job = t})

\* The rows of JOB_Q of db.rs before ORDER BY ... LIMIT 1.
Candidates_V1 == {t \in TaskIds : worker_count_v1(t) < tasks[t].count}

\* JOB_Q of db.rs: ORDER BY job.id
JOB_Q_V1 ==
    IF Candidates_V1 = {} THEN 0
    ELSE CHOOSE t \in Candidates_V1 : \A u \in Candidates_V1 : t <= u

\* Db::get_count of db.rs
get_count_v1(t) ==
    LET c == tasks[t].count
        w == worker_count_v1(t)
    IN IF w > c THEN 0 ELSE c - w

\* Db::job_ids_vec of db.rs, as the set of the ids it pushes: its query has
\* no ORDER BY.
job_ids_vec_v1 == {t \in TaskIds : tasks[t].count > worker_count_v1(t)}

\* Mutant: the assignments are not subtracted.
get_count_Total(t) == tasks[t].count

\* Db::get_count
get_count(t) ==
    LET c == tasks[t].count
        w == worker_count(t)
    IN IF w > c THEN 0 ELSE c - w

\* SELECT id ... FROM task ORDER BY id
TaskIdsById == [i \in 1..Len(tasks) |-> i]

\* Mutant: the assignments of the task are not counted.
HasFree_Defined(t) == tasks[t].count > 0

\* The test of job_ids_vec on one row (lib.rs 189).
HasFree(t) == tasks[t].count > worker_count(t)

\* Mutant: a task whose slots are all taken is still listed.
job_ids_vec_AtLeast ==
    SelectSeq(TaskIdsById, LAMBDA t : tasks[t].count >= worker_count(t))

\* Db::job_ids_vec: the ids it pushes, in the order of its query.
job_ids_vec == SelectSeq(TaskIdsById, HasFree)

\* The debug_assert! of get_count (lib.rs 216): compiled into debug builds
\* only, where its failure panics.
get_count_assertion(t) == tasks[t].count >= worker_count(t)

\* Mutant: ORDER BY id ASC.
current_job_Oldest(w) ==
    LET mine == {j \in JobIds : jobs[j].worker = w}
    IN IF mine = {} THEN 0 ELSE CHOOSE j \in mine : \A k \in mine : j <= k

\* Mutant: the latest job of the worker that has no finish row.
current_job_Unfinished(w) ==
    LET mine == {j \in JobIds : /\ jobs[j].worker = w
                                /\ \A x \in DOMAIN job_finish : x.job # j}
    IN IF mine = {} THEN 0 ELSE CHOOSE j \in mine : \A k \in mine : k <= j

\* Db::current_job: 0 is None.
current_job(w) ==
    LET mine == {j \in JobIds : jobs[j].worker = w}
    IN IF mine = {} THEN 0 ELSE CHOOSE j \in mine : \A k \in mine : k <= j

\* The number of rows of job_start (job_finish) whose key is j.
StartRows(j) == CopiesIn([job |-> j], job_start)
FinishRows(j) ==
    BagCardinality([r \in {x \in DOMAIN job_finish : x.job = j} |-> job_finish[r]])

\* Mutant: ORDER BY id DESC.
get_jobs_Desc == [i \in 1..Len(jobs) |-> Len(jobs) + 1 - i]

\* Db::get_jobs: SELECT id FROM job ORDER BY id.
get_jobs == [i \in 1..Len(jobs) |-> i]

\* Db::get_started_jobs, as the set of ids it returns (in ascending order).
get_started_jobs ==
    LET worker_latest == {current_job(w) : w \in {jobs[j].worker : j \in JobIds}}
    IN {j \in worker_latest : StartRows(j) > 0 /\ FinishRows(j) = 0}

----------------------------------------------------------------------------
Init ==
    /\ meta = <<>>
    /\ tables = {}
    /\ data_unique = FALSE
    /\ tasks = <<>>
    /\ worker = <<>>
    /\ jobs = <<>>
    /\ job_start = EmptyBag
    /\ job_finish = EmptyBag
    /\ pc = [w \in Workers |-> "idle"]
    /\ sel = [w \in Workers |-> 0]
    /\ ret = NoRet
    /\ lc = LcIdle

\* No connection is inside a take transaction, so none holds a lock on the
\* file: a statement run in autocommit mode can take the EXCLUSIVE lock.
\* No create or open is under way and no connection is inside a transaction
\* (a monitor that waits for its command, pc = "running", holds none).
AllIdle == lc.op = "idle" /\ \A w \in Workers : pc[w] \in {"idle", "running"}

\* Db::create_from_conn of lib.rs on empty storage: the v2 tables; the task
\* table's data column is BLOB NOT NULL, without UNIQUE.
Create ==
    /\ tables = {}
    /\ AllIdle
    /\ tables' = V2Tables
    /\ meta' = <<DB_VERSION>>
    /\ data_unique' = FALSE
    /\ ret' = Ret("create", "", "ok", 0, "")
    /\ UNCHANGED <<tasks, worker, jobs, job_start, job_finish, pc, sel, lc>>

\* Db::create_from_conn of db.rs on empty storage: the v1 tables job (here
\* tasks, every priority None) and worker (here jobs); job.data is UNIQUE.
CreateV1 ==
    /\ tables = {}
    /\ AllIdle
    /\ tables' = V1Tables
    /\ meta' = <<DB_VERSION_V1>>
    /\ data_unique' = TRUE
    /\ ret' = Ret("create_v1", "", "ok", 0, "")
    /\ UNCHANGED <<tasks, worker, jobs, job_start, job_finish, pc, sel, lc>>

\* ALTER TABLE task ADD priority INTEGER: every row gets a NULL priority.
AddPriority(rows) ==
    [t \in DOMAIN rows |->
        [count |-> rows[t].count, data |-> rows[t].data, priority |-> None]]

\* Mutant: SELECT id, id, data: the row's own id is taken for its task.
InsertFromWorker_ById(rows) ==
    [i \in DOMAIN rows |-> [task |-> i, worker |-> rows[i].data]]

\* INSERT INTO job (id, task, worker) SELECT id, job, data FROM worker
InsertFromWorker(rows) ==
    [i \in DOMAIN rows |-> [task |-> rows[i].job, worker |-> rows[i].data]]

\* UPDATE meta SET version = ?: every row of meta.
SetVersion(rows, v) == [i \in DOMAIN rows |-> v]

\* upgrade_v1, all its statements: job is renamed to task (its UNIQUE stays)
\* and gets the priority column, the worker rows become the rows of the new
\* job table, worker is dropped, job_start and job_finish are created empty,
\* the version becomes DB_VERSION.
upgrade_v1 ==
    /\ meta' = SetVersion(meta, DB_VERSION)
    /\ tables' = V2Tables
    /\ tasks' = AddPriority(tasks)
    /\ jobs' = InsertFromWorker(worker)
    /\ worker' = <<>>
    /\ UNCHANGED <<data_unique, job_start, job_finish>>

\* Db::open_from_conn of lib.rs on a store of version 1 or 2, no statement
\* failing: upgrade loops until the version is DB_VERSION.
Open ==
    /\ get_version \in {DB_VERSION_V1, DB_VERSION}
    /\ AllIdle
    /\ IF get_version = DB_VERSION_V1 THEN upgrade_v1 ELSE UNCHANGED store
    /\ ret' = Ret("open", "", "ok", 0, "")
    /\ UNCHANGED <<pc, sel, lc>>

\* A unique index on the data column rejects a row whose data is present.
DataConflict(d) == data_unique /\ \E t \in TaskIds : tasks[t].data = d

\* Db::new_job of lib.rs: one INSERT INTO task; returns the new row's id.
new_job(d, c, p) ==
    /\ get_version = DB_VERSION
    /\ AllIdle
    /\ Len(tasks) < MaxTasks
    /\ IF DataConflict(d)
       THEN /\ ret' = Ret("new_job", "", "err", 0, d)
            /\ UNCHANGED tasks
       ELSE /\ tasks' = Append(tasks, [count |-> c, data |-> d, priority |-> p])
            /\ ret' = Ret("new_job", "", "ok", Len(tasks) + 1, d)
    /\ UNCHANGED <<meta, tables, data_unique, worker, jobs, job_start, job_finish, pc, sel, lc>>

\* Db::new_job of db.rs: one INSERT INTO job (v1); a row is (count, data).
new_job_v1(d, c) ==
    /\ get_version = DB_VERSION_V1
    /\ AllIdle
    /\ Len(tasks) < MaxTasks
    /\ IF DataConflict(d)
       THEN /\ ret' = Ret("new_job_v1", "", "err", 0, d)
            /\ UNCHANGED tasks
       ELSE /\ tasks' = Append(tasks, [count |-> c, data |-> d])
            /\ ret' = Ret("new_job_v1", "", "ok", Len(tasks) + 1, d)
    /\ UNCHANGED <<meta, tables, data_unique, worker, jobs, job_start, job_finish, pc, sel, lc>>

\* The Job value take builds from the JOB_Q row: id := row.get(0), which is
\* task.id, and data := row.get(1), which is task.data.
\* Mutant: Job.id is the id of the row the take inserts.
JobOf_Inserted(t) == [id |-> Len(jobs) + 1, data |-> tasks[t].data]

JobOf(t) == [id |-> t, data |-> tasks[t].data]

\* Db::take of lib.rs, run with no other connection inside a transaction:
\* query JOB_Q; no row: Ok(None); else insert (task, worker) and commit.
\* Mutant: a worker that has a job row gets it moved to the new task.
take_Reclaim(w) ==
    /\ get_version = DB_VERSION
    /\ AllIdle
    /\ LET t == JOB_Q
       IN IF t = 0
          THEN /\ ret' = Ret("take", w, "none", 0, "")
               /\ UNCHANGED jobs
          ELSE /\ Len(jobs) < MaxJobs
               /\ jobs' = IF current_job(w) = 0
                          THEN Append(jobs, [task |-> t, worker |-> w])
                          ELSE [jobs EXCEPT ![current_job(w)].task = t]
               /\ ret' = Ret("take", w, "job", JobOf(t).id, JobOf(t).data)
    /\ UNCHANGED <<meta, tables, data_unique, tasks, worker, job_start, job_finish, pc, sel, lc>>

take(w) ==
    /\ get_version = DB_VERSION
    /\ AllIdle
    /\ LET t == JOB_Q
       IN IF t = 0
          THEN /\ ret' = Ret("take", w, "none", 0, "")
               /\ UNCHANGED jobs
          ELSE /\ Len(jobs) < MaxJobs
               /\ jobs' = Append(jobs, [task |-> t, worker |-> w])
               /\ ret' = Ret("take", w, "job", JobOf(t).id, JobOf(t).data)
    /\ UNCHANGED <<meta, tables, data_unique, tasks, worker, job_start, job_finish, pc, sel, lc>>

\* Db::take of db.rs: assignment rows go to table worker; returns job.data.
take_v1(w) ==
    /\ get_version = DB_VERSION_V1
    /\ AllIdle
    /\ LET t == JOB_Q_V1
       IN IF t = 0
          THEN /\ ret' = Ret("take_v1", w, "none", 0, "")
               /\ UNCHANGED worker
          ELSE /\ Len(worker) < MaxJobs
               /\ worker' = Append(worker, [job |-> t, data |-> w])
               /\ ret' = Ret("take_v1", w, "job", 0, tasks[t].data)
    /\ UNCHANGED <<meta, tables, data_unique, tasks, jobs, job_start, job_finish, pc, sel, lc>>

\* Mutant: job_start.job is no key, only a reference.
StartRejected_NoKey(j) == j \notin JobIds

\* Mutant: a finish event is refused while the job has no start event.
FinishRejected_Sequenced(j) ==
    j \notin JobIds \/ FinishRows(j) > 0 \/ StartRows(j) = 0

\* Mutant: the connection does not enforce foreign keys.
StartRejected_NoForeignKey(j) == StartRows(j) > 0

\* job_start.job and job_finish.job are PRIMARY KEY REFERENCES job, and
\* prepare_conn has set foreign_keys = 1 on every connection.
StartRejected(j) == j \notin JobIds \/ StartRows(j) > 0
FinishRejected(j) == j \notin JobIds \/ FinishRows(j) > 0

\* Db::log_start: one INSERT INTO job_start.
log_start(j) ==
    /\ get_version = DB_VERSION
    /\ AllIdle
    /\ IF StartRejected(j)
       THEN /\ ret' = Ret("log_start", "", "err", j, "")
            /\ UNCHANGED job_start
       ELSE /\ job_start' = job_start (+) SetToBag({[job |-> j]})
            /\ ret' = Ret("log_start", "", "ok", j, "")
    /\ UNCHANGED <<meta, tables, data_unique, tasks, worker, jobs, job_finish, pc, sel, lc>>

\* Mutant: a finish event gives the slot of its job back to the task.
log_finish_Requeue(j, r) ==
    /\ get_version = DB_VERSION
    /\ AllIdle
    /\ IF FinishRejected(j)
       THEN /\ ret' = Ret("log_finish", "", "err", j, "")
            /\ UNCHANGED <<job_finish, tasks>>
       ELSE /\ job_finish' = job_finish (+) SetToBag({[job |-> j, result |-> r]})
            /\ tasks' = [tasks EXCEPT ![jobs[j].task].count = @ + 1]
            /\ ret' = Ret("log_finish", "", "ok", j, "")
    /\ UNCHANGED <<meta, tables, data_unique, worker, jobs, job_start, pc, sel, lc>>

\* Db::log_finish: one INSERT INTO job_finish.
log_finish(j, r) ==
    /\ get_version = DB_VERSION
    /\ AllIdle
    /\ IF FinishRejected(j)
       THEN /\ ret' = Ret("log_finish", "", "err", j, "")
            /\ UNCHANGED job_finish
       ELSE /\ job_finish' = job_finish (+) SetToBag({[job |-> j, result |-> r]})
            /\ ret' = Ret("log_finish", "", "ok", j, "")
    /\ UNCHANGED <<meta, tables, data_unique, tasks, worker, jobs, job_start, pc, sel, lc>>

\* Mutant: the event goes to the worker's latest job that has no start
\* event yet.
cli_log_start_Unstarted(w) ==
    /\ get_version = DB_VERSION
    /\ AllIdle
    /\ LET mine == {j \in JobIds : jobs[j].worker = w /\ StartRows(j) = 0}
           id == IF mine = {} THEN 0 ELSE CHOOSE j \in mine : \A k \in mine : k <= j
       IN IF id = 0
          THEN /\ ret' = Ret("cli_log_start", w, "panic", 0, "")
               /\ UNCHANGED job_start
          ELSE /\ job_start' = job_start (+) SetToBag({[job |-> id]})
               /\ ret' = Ret("cli_log_start", w, "ok", id, "")
    /\ UNCHANGED <<meta, tables, data_unique, tasks, worker, jobs, job_finish, pc, sel, lc>>

\* The log-start subcommand of main.rs: Db::open, Db::current_job, expect,
\* Db::log_start.  expect panics on None; the error of log_start leaves main.
cli_log_start(w) ==
    /\ get_version = DB_VERSION
    /\ AllIdle
    /\ LET id == current_job(w)
       IN IF id = 0
          THEN /\ ret' = Ret("cli_log_start", w, "panic", 0, "")
               /\ UNCHANGED job_start
          ELSE IF StartRejected(id)
          THEN /\ ret' = Ret("cli_log_start", w, "err", id, "")
               /\ UNCHANGED job_start
          ELSE /\ job_start' = job_start (+) SetToBag({[job |-> id]})
               /\ ret' = Ret("cli_log_start", w, "ok", id, "")
    /\ UNCHANGED <<meta, tables, data_unique, tasks, worker, jobs, job_finish, pc, sel, lc>>

\* The log-finish subcommand of main.rs.
cli_log_finish(w, r) ==
    /\ get_version = DB_VERSION
    /\ AllIdle
    /\ LET id == current_job(w)
       IN IF id = 0
          THEN /\ ret' = Ret("cli_log_finish", w, "panic", 0, "")
               /\ UNCHANGED job_finish
          ELSE IF FinishRejected(id)
          THEN /\ ret' = Ret("cli_log_finish", w, "err", id, "")
               /\ UNCHANGED job_finish
          ELSE /\ job_finish' = job_finish (+) SetToBag({[job |-> id, result |-> r]})
               /\ ret' = Ret("cli_log_finish", w, "ok", id, "")
    /\ UNCHANGED <<meta, tables, data_unique, tasks, worker, jobs, job_start, pc, sel, lc>>

\* What Command::status returns to monitor: the command exited with a code,
\* was ended by a signal, or could not be started.
Exited(c) == [kind |-> "exit", n |-> c]
Signaled(sig) == [kind |-> "signal", n |-> sig]
NotStarted == [kind |-> "nostart", n |-> 0]

\* The exit codes and signal numbers a wait status can carry.
ExitCodes == 0..255
SignalNumbers == 1..255
AllOutcomes ==
    {Exited(c) : c \in ExitCodes} \cup {Signaled(g) : g \in SignalNumbers}
        \cup {NotStarted}

\* The outcomes of the commands the model runs.
RunOutcomes == {Exited(0), Exited(1), Signaled(9), NotStarted}

EXIT_FAILED_TO_START == 512

\* Mutant: signals are logged as monitor reports them, 128 + SIGNAL.
log_code_LikeExit(o) ==
    IF o.kind = "exit" THEN o.n
    ELSE IF o.kind = "signal" THEN 128 + o.n
    ELSE EXIT_FAILED_TO_START

\* log_code of monitor (main.rs 512-531).
log_code(o) ==
    IF o.kind = "exit" THEN o.n
    ELSE IF o.kind = "signal" THEN 256 + o.n
    ELSE EXIT_FAILED_TO_START

\* Mutant: monitor reports the code it logs.
my_exit_Logged(o) == log_code(o)

\* my_exit of monitor (main.rs 512-531).
my_exit(o) ==
    IF o.kind = "exit" THEN o.n
    ELSE IF o.kind = "signal" THEN 128 + o.n
    ELSE -1

\* The status the parent of a process reads after std::process::exit(v):
\* the low eight bits of v.
ExitStatus(v) == v % 256

\* Mutant: a take that finds no work ends like an error.
CliExit_NoWorkIsError(res) ==
    CASE res = "ok" -> 0
      [] res = "none" -> 1
      [] res = "err" -> 1
      [] res = "panic" -> 101

\* The status of a jerbs process by the way main ends: it returns Ok, it
\* calls exit(2) in take, it returns Err, or it panics.
CliExit(res) ==
    CASE res = "ok" -> 0
      [] res = "none" -> 2
      [] res = "err" -> 1
      [] res = "panic" -> 101

\* What a monitor process leaves in ret: the job in id, the outcome of its
\* command, and in exit the value it passes to exit (res = "exit") or the
\* status main ends with.
MonRet(w, res, j, o, status) ==
    [op |-> "monitor", who |-> w, res |-> res, id |-> j, data |-> "",
     outcome |-> o, exit |-> status]

\* The monitor subcommand up to the start of its command: Db::open,
\* Db::current_job, expect, Db::log_start.
monitor_start(w) ==
    /\ get_version = DB_VERSION
    /\ AllIdle
    /\ pc[w] = "idle"
    /\ LET id == current_job(w)
       IN IF id = 0
          THEN /\ ret' = MonRet(w, "panic", 0, NotStarted, CliExit("panic"))
               /\ UNCHANGED <<job_start, pc, sel>>
          ELSE IF StartRejected(id)
          THEN /\ ret' = MonRet(w, "start_err", id, NotStarted, CliExit("err"))
               /\ UNCHANGED <<job_start, pc, sel>>
          ELSE /\ job_start' = job_start (+) SetToBag({[job |-> id]})
               /\ pc' = [pc EXCEPT ![w] = "running"]
               /\ sel' = [sel EXCEPT ![w] = id]
               /\ ret' = MonRet(w, "started", id, NotStarted, 0)
    /\ UNCHANGED <<meta, tables, data_unique, tasks, worker, jobs, job_finish, lc>>

\* Mutant: the finish event goes to the job that is current when the
\* command ends.
monitor_finish_Current(w, o) ==
    /\ AllIdle
    /\ pc[w] = "running"
    /\ IF FinishRejected(current_job(w))
       THEN /\ ret' = MonRet(w, "finish_err", sel[w], o, CliExit("err"))
            /\ UNCHANGED job_finish
       ELSE /\ job_finish' = job_finish (+)
                    SetToBag({[job |-> current_job(w), result |-> log_code(o)]})
            /\ ret' = MonRet(w, "exit", sel[w], o, my_exit(o))
    /\ pc' = [pc EXCEPT ![w] = "idle"]
    /\ sel' = [sel EXCEPT ![w] = 0]
    /\ UNCHANGED <<meta, tables, data_unique, tasks, worker, jobs, job_start, lc>>

\* The command of the monitor of w has ended with outcome o: Db::log_finish
\* with log_code, then exit(my_exit); the error of log_finish leaves main
\* before the exit.
monitor_finish(w, o) ==
    /\ AllIdle
    /\ pc[w] = "running"
    /\ IF FinishRejected(sel[w])
       THEN /\ ret' = MonRet(w, "finish_err", sel[w], o, CliExit("err"))
            /\ UNCHANGED job_finish
       ELSE /\ job_finish' = job_finish (+)
                    SetToBag({[job |-> sel[w], result |-> log_code(o)]})
            /\ ret' = MonRet(w, "exit", sel[w], o, my_exit(o))
    /\ pc' = [pc EXCEPT ![w] = "idle"]
    /\ sel' = [sel EXCEPT ![w] = 0]
    /\ UNCHANGED <<meta, tables, data_unique, tasks, worker, jobs, job_start, lc>>

\* Db::add_count, which main.rs calls for modify --add: the count of the
\* task moves by delta; nothing compares it with the assignments.  The
\* count stays a non-negative integer within the counts of the model.
add_count(t, delta) ==
    /\ get_version = DB_VERSION
    /\ AllIdle
    /\ t \in TaskIds
    /\ tasks[t].count + delta \in Counts \cup {0}
    /\ tasks' = [tasks EXCEPT ![t].count = tasks[t].count + delta]
    /\ ret' = Ret("add_count", "", "ok", t, "")
    /\ UNCHANGED <<meta, tables, data_unique, worker, jobs, job_start, job_finish, pc, sel, lc>>

\* The build profiles of the crate: debug_assert! is compiled in "debug".
Builds == {"debug", "release"}

\* What a call of get_count on task t leaves in ret: the count in id.
CountRet(t, build, res, n) ==
    [op |-> "get_count", who |-> build, res |-> res, id |-> n, data |-> "",
     task |-> t]

\* A call of Db::get_count by a build of the crate.
get_count_call(t, build) ==
    /\ get_version = DB_VERSION
    /\ AllIdle
    /\ t \in TaskIds
    /\ IF build = "debug" /\ ~get_count_assertion(t)
       THEN ret' = CountRet(t, build, "panic", 0)
       ELSE ret' = CountRet(t, build, "ok", get_count(t))
    /\ UNCHANGED <<store, pc, sel, lc>>

----------------------------------------------------------------------------
\* Db::take step by step, for connections that run it concurrently.  The
\* transaction is DEFERRED: JOB_Q takes the file's SHARED lock, the INSERT
\* the RESERVED lock, COMMIT the PENDING and then the EXCLUSIVE lock.
\*   pc = "reading": SHARED held, JOB_Q returned sel
\*   pc = "writing": RESERVED held, the new row is in the transaction only
\*   pc = "pending": PENDING held, COMMIT waits for the readers to leave

Readers(w) == {v \in Workers \ {w} : pc[v] = "reading"}
Writers(w) == {v \in Workers \ {w} : pc[v] \in {"writing", "pending"}}
Pending(w) == {v \in Workers \ {w} : pc[v] = "pending"}

\* lib.rs 147-158: begin, prepare and run JOB_Q.  A PENDING lock of another
\* connection refuses the SHARED lock: the query fails with SQLITE_BUSY.
take_query(w) ==
    /\ get_version = DB_VERSION
    /\ pc[w] = "idle"
    /\ IF Pending(w) # {}
       THEN /\ ret' = Ret("take", w, "err", 0, "")
            /\ UNCHANGED <<pc, sel>>
       ELSE IF JOB_Q = 0
       THEN /\ ret' = Ret("take", w, "none", 0, "")
            /\ UNCHANGED <<pc, sel>>
       ELSE /\ Len(jobs) < MaxJobs
            /\ pc' = [pc EXCEPT ![w] = "reading"]
            /\ sel' = [sel EXCEPT ![w] = JOB_Q]
            /\ UNCHANGED ret
    /\ UNCHANGED <<store, lc>>

\* Mutant: the INSERT never finds the RESERVED lock taken.
ReservedFree_Always(w) == TRUE

\* Whether the INSERT of connection w gets the RESERVED lock.
ReservedFree(w) == Writers(w) = {}

\* Mutant: the failed INSERT returns its error with the transaction left
\* open, and with it the SHARED lock.
take_insert_Held(w) ==
    /\ pc[w] = "reading"
    /\ IF ReservedFree(w)
       THEN /\ pc' = [pc EXCEPT ![w] = "writing"]
            /\ UNCHANGED <<sel, ret>>
       ELSE /\ ret' = Ret("take", w, "err", 0, "")
            /\ UNCHANGED <<pc, sel>>
    /\ UNCHANGED <<store, lc>>

\* lib.rs 159-162: the INSERT.  With the RESERVED lock taken by another
\* connection it fails with SQLITE_BUSY at once (a connection that holds a
\* SHARED lock is not made to wait); the error drops tx, which rolls back.
take_insert(w) ==
    /\ pc[w] = "reading"
    /\ IF ReservedFree(w)
       THEN /\ pc' = [pc EXCEPT ![w] = "writing"]
            /\ UNCHANGED <<sel, ret>>
       ELSE /\ pc' = [pc EXCEPT ![w] = "idle"]
            /\ sel' = [sel EXCEPT ![w] = 0]
            /\ ret' = Ret("take", w, "err", 0, "")
    /\ UNCHANGED <<store, lc>>

\* Whether the COMMIT of connection w gets the EXCLUSIVE lock.
ExclusiveFree(w) == Readers(w) = {}

\* lib.rs 164-166: COMMIT succeeds once no other connection holds SHARED.
take_commit(w) ==
    /\ pc[w] \in {"writing", "pending"}
    /\ ExclusiveFree(w)
    /\ jobs' = Append(jobs, [task |-> sel[w], worker |-> w])
    /\ pc' = [pc EXCEPT ![w] = "idle"]
    /\ sel' = [sel EXCEPT ![w] = 0]
    /\ ret' = Ret("take", w, "job", JobOf(sel[w]).id, JobOf(sel[w]).data)
    /\ UNCHANGED <<meta, tables, data_unique, tasks, worker, job_start, job_finish, lc>>

\* lib.rs 164: COMMIT while another connection holds SHARED: it takes the
\* PENDING lock and waits in the busy handler.
take_commit_wait(w) ==
    /\ pc[w] = "writing"
    /\ ~ExclusiveFree(w)
    /\ pc' = [pc EXCEPT ![w] = "pending"]
    /\ UNCHANGED <<store, sel, ret, lc>>

\* lib.rs 164: the busy handler gives up: COMMIT fails with SQLITE_BUSY, the
\* error drops tx, which rolls back.
take_commit_busy(w) ==
    /\ pc[w] \in {"writing", "pending"}
    /\ ~ExclusiveFree(w)
    /\ pc' = [pc EXCEPT ![w] = "idle"]
    /\ sel' = [sel EXCEPT ![w] = 0]
    /\ ret' = Ret("take", w, "err", 0, "")
    /\ UNCHANGED <<store, lc>>

----------------------------------------------------------------------------
\* Db::create_from_conn and Db::open_from_conn statement by statement.
\*   lc.op = "create": lc.k statements of create_from_conn have run, each in
\*                     autocommit mode
\*   lc.op = "open":   inside upgrade; lc.k = 0: between two turns of its
\*                     loop; lc.k >= 1: inside the transaction of upgrade_v1,
\*                     whose next statement is lc.k; lc.snap is the store as
\*                     it was when the transaction began.  The store
\*                     variables are the transaction's view.

WorkersIdle == \A w \in Workers : pc[w] = "idle"

\* The tables create_from_conn creates, in its order (lib.rs 116-123).
CreateOrder == <<"meta", "task", "job", "job_start", "job_finish">>

\* Mutant: CREATE TABLE IF NOT EXISTS.
CreateRejected_IfNotExists(name) == FALSE

\* CREATE TABLE fails when a table of that name exists.
CreateRejected(name) == name \in tables

\* Mutant: the version row is written one above the engine's version.
CreatedVersion_Next == DB_VERSION + 1

\* The version create_from_conn inserts (lib.rs 123).
CreatedVersion == DB_VERSION

\* Db::create_from_conn of lib.rs, its next statement: one of the five
\* CREATE TABLE, then INSERT INTO meta VALUES (DB_VERSION).  An error
\* returns at once; what earlier statements did stays.
create_stmt ==
    /\ lc.op \in {"idle", "create"}
    /\ WorkersIdle
    /\ LET k == lc.k + 1
       IN IF k <= Len(CreateOrder)
          THEN IF CreateRejected(CreateOrder[k])
               THEN /\ ret' = Ret("create", "", "err", 0, "")
                    /\ lc' = LcIdle
                    /\ UNCHANGED <<tables, data_unique, meta>>
               ELSE /\ tables' = tables \cup {CreateOrder[k]}
                    /\ data_unique' =
                           IF CreateOrder[k] = "task" THEN FALSE ELSE data_unique
                    /\ lc' = [op |-> "create", k |-> k, snap |-> <<>>]
                    /\ UNCHANGED <<meta, ret>>
          ELSE /\ meta' = Append(meta, CreatedVersion)
               /\ ret' = Ret("create", "", "ok", 0, "")
               /\ lc' = LcIdle
               /\ UNCHANGED <<tables, data_unique>>
    /\ UNCHANGED <<tasks, worker, jobs, job_start, job_finish, pc, sel>>

\* The next statement of create_from_conn fails in the storage layer (or
\* the process ends): the call returns the error.
create_fail ==
    /\ lc.op = "create"
    /\ ret' = Ret("create", "", "err", 0, "")
    /\ lc' = LcIdle
    /\ UNCHANGED <<store, pc, sel>>

\* Mutant: every version from DB_VERSION on is taken as current.
VersionMatch_AtLeast(v) ==
    IF v = 1 THEN "upgrade_v1"
    ELSE IF v >= DB_VERSION THEN "ok"
    ELSE "too_new"

\* The match of upgrade (lib.rs 95-99).
VersionMatch(v) ==
    IF v = 1 THEN "upgrade_v1"
    ELSE IF v = DB_VERSION THEN "ok"
    ELSE "too_new"

\* upgrade, one turn of its loop up to the match (lib.rs 93-99): begin a
\* transaction, read the version, and either enter upgrade_v1, or return Ok
\* or DbTooNew (dropping the transaction, which has written nothing).
\* get_version fails when there is no table meta and panics (unwrap) when
\* meta has no row.
upgrade_begin ==
    /\ lc.op \in {"idle", "open"}
    /\ lc.k = 0
    /\ WorkersIdle
    /\ IF "meta" \notin tables
       THEN /\ ret' = Ret("open", "", "err", 0, "")
            /\ lc' = LcIdle
       ELSE IF meta = <<>>
       THEN /\ ret' = Ret("open", "", "panic", 0, "")
            /\ lc' = LcIdle
       ELSE IF VersionMatch(get_version) = "upgrade_v1"
       THEN /\ lc' = [op |-> "open", k |-> 1, snap |-> store]
            /\ UNCHANGED ret
       ELSE IF VersionMatch(get_version) = "ok"
       THEN /\ ret' = Ret("open", "", "ok", 0, "")
            /\ lc' = LcIdle
       ELSE /\ ret' = Ret("open", "", "too_new", get_version, "")
            /\ lc' = LcIdle
    /\ UNCHANGED <<store, pc, sel>>

\* Mutant: the step leaves the version as it found it.
UpgradedVersion_Same == DB_VERSION_V1

\* The version upgrade_v1 writes (lib.rs 86).
UpgradedVersion == DB_VERSION

\* PRAGMA foreign_key_check finds no row: every job row references a task.
ForeignKeysHold == \A i \in DOMAIN jobs : jobs[i].task \in TaskIds

\* The statements of upgrade_v1, pre_upgrade and post_upgrade included.
UpgradeStmts == 10

\* Statement k of upgrade_v1 fails on the tables it finds: RENAME needs its
\* source and a free target name, CREATE TABLE a free name, INSERT ... SELECT
\* and DROP their table; post_upgrade fails when foreign_key_check returns
\* a row.
StmtRejected(k) ==
    CASE k = 2 -> "job" \notin tables \/ "task" \in tables
      [] k = 3 -> "task" \notin tables
      [] k = 4 -> "job" \in tables
      [] k = 5 -> "worker" \notin tables \/ "job" \notin tables
      [] k = 6 -> "worker" \notin tables
      [] k = 7 -> "job_start" \in tables
      [] k = 8 -> "job_finish" \in tables
      [] k = UpgradeStmts -> ~ForeignKeysHold
      [] OTHER -> FALSE

\* Mutant: a failed step leaves the store as its statements made it.
Rollback_None(snap) == store

\* Dropping the transaction rolls back to the store as it was at its begin.
Rollback(snap) == snap

RestoreStore(s) ==
    /\ meta' = s[1]
    /\ tables' = s[2]
    /\ data_unique' = s[3]
    /\ tasks' = s[4]
    /\ worker' = s[5]
    /\ jobs' = s[6]
    /\ job_start' = s[7]
    /\ job_finish' = s[8]

\* upgrade_v1, its next statement (lib.rs 66-88).  Statement 1 is
\* pre_upgrade, whose PRAGMA foreign_keys = 0 changes nothing in the file;
\* statement 10 is post_upgrade.  A statement that fails returns its error
\* through upgrade, which drops the transaction; ret.id is the statement.
upgrade_stmt ==
    /\ lc.op = "open"
    /\ lc.k \in 1..UpgradeStmts
    /\ IF StmtRejected(lc.k)
       THEN /\ RestoreStore(Rollback(lc.snap))
            /\ ret' = Ret("open", "", "err", lc.k, "")
            /\ lc' = LcIdle
       ELSE /\ lc' = [lc EXCEPT !.k = lc.k + 1]
            /\ UNCHANGED ret
            /\ tables' =
                  CASE lc.k = 2 -> (tables \ {"job"}) \cup {"task"}
                    [] lc.k = 4 -> tables \cup {"job"}
                    [] lc.k = 6 -> tables \ {"worker"}
                    [] lc.k = 7 -> tables \cup {"job_start"}
                    [] lc.k = 8 -> tables \cup {"job_finish"}
                    [] OTHER -> tables
            /\ tasks' = IF lc.k = 3 THEN AddPriority(tasks) ELSE tasks
            /\ jobs' = IF lc.k = 5 THEN InsertFromWorker(worker) ELSE jobs
            /\ worker' = IF lc.k = 6 THEN <<>> ELSE worker
            /\ meta' = IF lc.k = 9 THEN SetVersion(meta, UpgradedVersion) ELSE meta
            /\ UNCHANGED <<data_unique, job_start, job_finish>>
    /\ UNCHANGED <<pc, sel>>

\* tx.commit() of upgrade (lib.rs 100), then the loop's next turn.
upgrade_commit ==
    /\ lc.op = "open"
    /\ lc.k = UpgradeStmts + 1
    /\ lc' = [op |-> "open", k |-> 0, snap |-> <<>>]
    /\ UNCHANGED <<store, pc, sel, ret>>

\* A statement of upgrade_v1, or the commit, fails in the storage layer: the
\* error leaves upgrade, which drops the transaction.
upgrade_fail ==
    /\ lc.op = "open"
    /\ lc.k >= 1
    /\ RestoreStore(Rollback(lc.snap))
    /\ ret' = Ret("open", "", "err", lc.k, "")
    /\ lc' = LcIdle
    /\ UNCHANGED <<pc, sel>>

\* A newer build has written the store: its version is above DB_VERSION
\* (as test_db_too_new sets it).
NewerBuild ==
    /\ get_version = DB_VERSION
    /\ AllIdle
    /\ meta' = SetVersion(meta, DB_VERSION + 1)
    /\ ret' = Ret("newer_build", "", "ok", 0, "")
    /\ UNCHANGED <<tables, data_unique, tasks, worker, jobs, job_start, job_finish,
                   pc, sel, lc>>

\* What a take process leaves in ret: the status it ended with in exit.
TakeRet(w, res, id, data, status) ==
    [op |-> "cli_take", who |-> w, res |-> res, id |-> id, data |-> data,
     exit |-> status]

\* The take subcommand of main.rs (without --wait): Db::open, whose error
\* leaves main, then Db::take; the data of the job goes to stdout, and no
\* job is exit(2).  The store is not one of version 1.
cli_take(w) ==
    /\ AllIdle
    /\ get_version # DB_VERSION_V1
    /\ IF "meta" \notin tables \/ VersionMatch(get_version) = "too_new"
       THEN /\ ret' = TakeRet(w, "err", 0, "", CliExit("err"))
            /\ UNCHANGED jobs
       ELSE LET t == JOB_Q
            IN IF t = 0
               THEN /\ ret' = TakeRet(w, "none", 0, "", CliExit("none"))
                    /\ UNCHANGED jobs
               ELSE /\ Len(jobs) < MaxJobs
                    /\ jobs' = Append(jobs, [task |-> t, worker |-> w])
                    /\ ret' = TakeRet(w, "job", JobOf(t).id, JobOf(t).data,
                                      CliExit("ok"))
    /\ UNCHANGED <<meta, tables, data_unique, tasks, worker, job_start, job_finish, pc, sel, lc>>

----------------------------------------------------------------------------
\* The job ids a caller may pass: every id a job can have, and one no job has.
LogIds == 1..(MaxJobs + 1)

\* The queue: the store's life cycle, task definition and assignment, one
\* call at a time.
Next ==
    \/ Create
    \/ CreateV1
    \/ Open
    \/ \E d \in Data, c \in Counts, p \in Priorities : new_job(d, c, p)
    \/ \E d \in Data, c \in Counts : new_job_v1(d, c)
    \/ \E w \in Workers : take(w)
    \/ \E w \in Workers : take_v1(w)

Spec == Init /\ [][Next]_vars

\* The queue with the start and finish events of its jobs.
NextLog ==
    \/ Create
    \/ \E d \in LogData, c \in LogCounts, p \in LogPriorities : new_job(d, c, p)
    \/ \E w \in Workers : take(w)
    \/ \E j \in LogIds : log_start(j)
    \/ \E j \in LogIds, r \in Results : log_finish(j, r)

SpecLog == Init /\ [][NextLog]_vars

\* Connections that run take concurrently, tasks being defined in between.
NextConc ==
    \/ Create
    \/ \E d \in LogData, c \in Counts, p \in Priorities : new_job(d, c, p)
    \/ \E w \in Workers : take_query(w)
    \/ \E w \in Workers : take_insert(w)
    \/ \E w \in Workers : take_commit(w)
    \/ \E w \in Workers : take_commit_wait(w)
    \/ \E w \in Workers : take_commit_busy(w)

SpecConc == Init /\ [][NextConc]_vars

\* The counts of the tasks whose slots the workers take until none is left,
\* and the deltas of modify --add in between: all the slots together stay
\* below MaxJobs.
LiveCounts == {1}
LiveDeltas == {-1}

\* Connections that call take again and again, while tasks are defined and
\* their counts lowered.
NextLive ==
    \/ Create
    \/ \E d \in LogData, c \in LiveCounts, p \in Priorities : new_job(d, c, p)
    \/ \E t \in 1..MaxTasks, delta \in LiveDeltas : add_count(t, delta)
    \/ \E w \in Workers : take_query(w)
    \/ \E w \in Workers : take_insert(w)
    \/ \E w \in Workers : take_commit(w)
    \/ \E w \in Workers : take_commit_wait(w)
    \/ \E w \in Workers : take_commit_busy(w)

\* Every worker calls take again once its call has returned, and a call
\* that has begun runs on: the INSERT follows the query, the COMMIT the
\* INSERT.  A COMMIT that waits for readers gives up only finitely often:
\* a reader's next statement is its INSERT, which ends its transaction one
\* way or the other well inside the busy timeout.
SpecLive ==
    /\ Init
    /\ [][NextLive]_vars
    /\ \A w \in Workers : WF_vars(take_query(w))
    /\ \A w \in Workers : WF_vars(take_insert(w))
    /\ \A w \in Workers : WF_vars(take_commit(w) \/ take_commit_wait(w))
    /\ <>[][\A w \in Workers : ~take_commit_busy(w)]_vars

\* The subcommands take, log-start and log-finish of main.rs.
NextCli ==
    \/ Create
    \/ \E d \in LogData, c \in LogCounts, p \in LogPriorities : new_job(d, c, p)
    \/ \E w \in Workers : take(w)
    \/ \E w \in Workers : cli_log_start(w)
    \/ \E w \in Workers, r \in Results : cli_log_finish(w, r)

SpecCli == Init /\ [][NextCli]_vars

\* Stores created by this build or upgraded from version 1, with the
\* events logged for their jobs.
NextRef ==
    \/ Create
    \/ CreateV1
    \/ \E d \in LogData, c \in LogCounts : new_job_v1(d, c)
    \/ \E w \in Workers : take_v1(w)
    \/ upgrade_begin
    \/ upgrade_stmt
    \/ upgrade_commit
    \/ upgrade_fail
    \/ \E d \in LogData, c \in LogCounts, p \in LogPriorities : new_job(d, c, p)
    \/ \E w \in Workers : take(w)
    \/ \E j \in LogIds : log_start(j)
    \/ \E j \in LogIds, r \in Results : log_finish(j, r)

SpecRef == Init /\ [][NextRef]_vars

\* The take subcommand on stores that are missing, current or too new.
NextTake ==
    \/ Create
    \/ \E d \in Data, c \in Counts, p \in LogPriorities : new_job(d, c, p)
    \/ \E w \in Workers : cli_take(w)
    \/ NewerBuild

SpecTake == Init /\ [][NextTake]_vars

\* The worker whose jobs are run under monitor; the other one logs by hand.
Monitored == {"w1"}

\* The subcommands take, log-start, log-finish and monitor of main.rs.
NextMon ==
    \/ Create
    \/ \E d \in LogData, c \in LogCounts, p \in LogPriorities : new_job(d, c, p)
    \/ \E w \in Workers : take(w)
    \/ \E w \in Workers : cli_log_start(w)
    \/ \E w \in Workers, r \in Results : cli_log_finish(w, r)
    \/ \E w \in Monitored : monitor_start(w)
    \/ \E w \in Monitored, o \in RunOutcomes : monitor_finish(w, o)

SpecMon == Init /\ [][NextMon]_vars

\* The deltas of modify --add.
Deltas == {-1, 1}

\* Tasks whose count is adjusted while their slots are taken and counted.
NextAdj ==
    \/ Create
    \/ \E d \in LogData, c \in Counts, p \in LogPriorities : new_job(d, c, p)
    \/ \E w \in Workers : take(w)
    \/ \E t \in 1..MaxTasks, delta \in Deltas : add_count(t, delta)
    \/ \E t \in 1..MaxTasks, b \in Builds : get_count_call(t, b)

SpecAdj == Init /\ [][NextAdj]_vars

\* Tasks whose count is adjusted between the takes.
NextSel ==
    \/ Create
    \/ \E d \in LogData, c \in Counts, p \in LogPriorities : new_job(d, c, p)
    \/ \E w \in Workers : take(w)
    \/ \E t \in 1..MaxTasks, delta \in Deltas : add_count(t, delta)

SpecSel == Init /\ [][NextSel]_vars

\* The store's life cycle statement by statement, with the queue operations
\* of both versions.
NextMig ==
    \/ create_stmt
    \/ create_fail
    \/ CreateV1
    \/ \E d \in Data, c \in Counts : new_job_v1(d, c)
    \/ \E w \in Workers : take_v1(w)
    \/ upgrade_begin
    \/ upgrade_stmt
    \/ upgrade_commit
    \/ upgrade_fail
    \/ NewerBuild
    \/ \E d \in Data, c \in Counts, p \in LogPriorities : new_job(d, c, p)
    \/ \E w \in Workers : take(w)

SpecMig == Init /\ [][NextMig]_vars

\* A store of version 1 and its opening by this build, with no failure of
\* the storage layer.  upgrade is sequential code: once called it runs on.
NextUp ==
    \/ CreateV1
    \/ \E d \in Data, c \in Counts : new_job_v1(d, c)
    \/ \E w \in Workers : take_v1(w)
    \/ upgrade_begin
    \/ upgrade_stmt
    \/ upgrade_commit
    \/ \E d \in LogData, c \in LogCounts, p \in LogPriorities : new_job(d, c, p)
    \/ \E w \in Workers : take(w)

SpecUp ==
    /\ Init
    /\ [][NextUp]_vars
    /\ WF_vars(lc.op = "open" /\ upgrade_begin)
    /\ WF_vars(upgrade_stmt)
    /\ WF_vars(upgrade_commit)

----------------------------------------------------------------------------
\* Properties

Max0(n) == IF n < 0 THEN 0 ELSE n
\* The number of job rows that reference task t.
NClaims(t) == Cardinality({j \in DOMAIN jobs : jobs[j].task = t})
\* The last call was a take that returned a job.
TookJob == ret.op = "take" /\ ret.res = "job"
\* The job row the last successful take inserted.
NewJob == jobs[Len(jobs)]
\* COALESCE(priority, 0) of task t.
PrioOf(t) == IF tasks[t].priority = None THEN 0 ELSE tasks[t].priority[1]
\* The tasks that had a free slot before the last job row was inserted.
FreeBefore ==
    {t \in TaskIds :
        Cardinality({j \in 1..(Len(jobs) - 1) : jobs[j].task = t}) < tasks[t].count}

\* C1: under every interleaving of concurrent takes (tasks being defined in
\* between), no task is referenced by more job rows than its count.
C1_AtMostDesiredCount == \A t \in TaskIds : NClaims(t) <= tasks[t].count

\* Two connections have both seen the last free slot of a task; one of them
\* holds the RESERVED lock for its INSERT.
C1_Witness ==
    \E w \in Workers, v \in Workers :
        /\ w # v
        /\ pc[w] = "reading"
        /\ pc[v] \in {"writing", "pending"}
        /\ sel[w] = sel[v]
        /\ tasks[sel[w]].count - NClaims(sel[w]) = 1

\* C2: a successful take assigns from the task that is least, among the
\* tasks with a free slot, by (priority with NULL as 0, then id).
C2_TakesMinimalTask ==
    TookJob =>
        /\ NewJob.task \in FreeBefore
        /\ \A u \in FreeBefore :
               \/ PrioOf(NewJob.task) < PrioOf(u)
               \/ PrioOf(NewJob.task) = PrioOf(u) /\ NewJob.task <= u

\* Task 2, defined later with priority -10, is taken before task 1 of
\* default priority, which still had a free slot.
C2_Witness ==
    /\ TookJob
    /\ NewJob.task = 2
    /\ 1 \in FreeBefore
    /\ tasks[1].priority = None
    /\ tasks[2].priority = Some(-10)

\* C3: a successful take returns the id of the job row it inserted and the
\* data of the task it assigned from, and current_job of the worker is then
\* the returned id.
C3_ReturnsInsertedJob ==
    TookJob =>
        /\ ret.id = Len(jobs)
        /\ ret.data = tasks[NewJob.task].data
        /\ current_job(ret.who) = ret.id

\* C4: on a store of the current version, new_job with the data of an
\* existing task fails and leaves the tasks unchanged.
C4_DuplicateDataFails ==
    [][(/\ get_version = DB_VERSION
        /\ ret'.op = "new_job"
        /\ \E t \in TaskIds : tasks[t].data = ret'.data)
       => (ret'.res = "err" /\ tasks' = tasks)]_vars

\* C5: get_count(t) is max(0, count - n) for n the job rows assigned from t,
\* and a successful take lowers get_count of exactly one task, by one.
C5_RemainingCount ==
    [][/\ \A t \in DOMAIN tasks' :
              get_count(t)' = Max0(tasks'[t].count - NClaims(t)')
       /\ (ret'.op = "take" /\ ret'.res = "job") =>
              \E t \in TaskIds :
                  /\ get_count(t)' = get_count(t) - 1
                  /\ \A u \in TaskIds \ {t} : get_count(u)' = get_count(u)]_vars

\* A take has just used the last slot of a task of count 2.
C5_Witness ==
    /\ TookJob
    /\ tasks[NewJob.task].count = 2
    /\ NClaims(NewJob.task) = 2
    /\ get_count(NewJob.task) = 0

\* C6: take on a store with no task, or with no task that has a free slot,
\* returns Ok(None) and leaves the store unchanged.
C6_NoWork ==
    [][(/\ get_version = DB_VERSION
        /\ ret'.op = "take"
        /\ \A t \in TaskIds : NClaims(t) >= tasks[t].count)
       => (ret'.res = "none" /\ store' = store)]_vars

\* A take has returned Ok(None) on a store whose tasks are all used up.
C6_Witness ==
    /\ ret.op = "take"
    /\ ret.res = "none"
    /\ tasks # <<>>
    /\ \A t \in TaskIds : NClaims(t) = tasks[t].count

\* C7: get_started_jobs returns exactly the jobs that have a start event and
\* no finish event.
C7_PureAntiJoin ==
    get_started_jobs = {j \in JobIds : StartRows(j) > 0 /\ FinishRows(j) = 0}

\* C8: with the id a take returned: it is not listed by get_started_jobs
\* before log_start, is listed once log_start of it has succeeded, and is
\* not listed once log_finish of it has succeeded.
C8_ListedBetweenStartAndFinish ==
    [][/\ (ret'.op = "take" /\ ret'.res = "job")
              => ret'.id \notin get_started_jobs'
       /\ (/\ TookJob
           /\ ret'.op = "log_start" /\ ret'.res = "ok" /\ ret'.id = ret.id)
              => ret.id \in get_started_jobs'
       /\ (/\ ret.op = "log_start" /\ ret.res = "ok"
           /\ ret'.op = "log_finish" /\ ret'.res = "ok" /\ ret'.id = ret.id)
              => ret.id \notin get_started_jobs']_vars

\* C9: no job has two start events or two finish events; log_start
\* (log_finish) of a job that has one fails and leaves the events unchanged.
C9_AtMostOneEvent ==
    [][/\ \A j \in LogIds : StartRows(j)' <= 1 /\ FinishRows(j)' <= 1
       /\ (ret'.op = "log_start" /\ StartRows(ret'.id) > 0)
              => (ret'.res = "err" /\ UNCHANGED <<job_start, job_finish>>)
       /\ (ret'.op = "log_finish" /\ FinishRows(ret'.id) > 0)
              => (ret'.res = "err" /\ UNCHANGED <<job_start, job_finish>>)]_vars

\* A second log_start of a started job has been rejected.
C9_Witness ==
    /\ ret.op = "log_start"
    /\ ret.res = "err"
    /\ ret.id \in JobIds
    /\ StartRows(ret.id) = 1

\* C10: log_finish of an existing job without a start event succeeds, and
\* log_start of a job that has a finish event and no start event succeeds.
C10_NotSequenced ==
    [][\A j \in JobIds :
        /\ (/\ ret'.op = "log_finish" /\ ret'.id = j
            /\ StartRows(j) = 0
            /\ FinishRows(j) = 0)
               => (ret'.res = "ok" /\ FinishRows(j)' = 1)
        /\ (/\ ret'.op = "log_start" /\ ret'.id = j
            /\ FinishRows(j) > 0
            /\ StartRows(j) = 0)
               => (ret'.res = "ok" /\ StartRows(j)' = 1)]_vars

\* A log_start has just succeeded on a job that already had its finish event.
C10_Witness ==
    /\ ret.op = "log_start"
    /\ ret.res = "ok"
    /\ StartRows(ret.id) = 1
    /\ FinishRows(ret.id) = 1

----------------------------------------------------------------------------
\* The job rows of worker w.
WorkerRows(w) == {j \in DOMAIN jobs : jobs[j].worker = w}

\* The greatest element of a non-empty set of ids.
Greatest(S) == CHOOSE j \in S : \A k \in S : k <= j

\* C11: current_job(w) is the greatest id among the job rows of worker w,
\* with or without rows in job_start and job_finish for it, and is None
\* exactly when no job row has worker w.
C11_CurrentJobIsLatest ==
    \A w \in Workers :
        /\ (current_job(w) = 0) <=> (WorkerRows(w) = {})
        /\ current_job(w) # 0 =>
               /\ current_job(w) \in WorkerRows(w)
               /\ \A j \in WorkerRows(w) : j <= current_job(w)

\* A worker holds two jobs, the older one started and finished and the
\* latest one with no event, while another worker has none.
C11_Witness ==
    \E w \in Workers, j \in JobIds :
        /\ j \in WorkerRows(w)
        /\ j < current_job(w)
        /\ StartRows(j) = 1 /\ FinishRows(j) = 1
        /\ StartRows(current_job(w)) = 0 /\ FinishRows(current_job(w)) = 0
        /\ \E v \in Workers : current_job(v) = 0

\* C12: log-start (log-finish) for worker w succeeds exactly when w has a
\* job row and the latest of them has no row in job_start (job_finish);
\* then it records one event for that job, and in every other case it
\* fails and records nothing.
C12_CliLogsCurrentJob ==
    [][\A w \in Workers :
          /\ (ret'.op = "cli_log_start" /\ ret'.who = w) =>
                /\ (ret'.res = "ok") <=>
                      (WorkerRows(w) # {} /\ StartRows(Greatest(WorkerRows(w))) = 0)
                /\ ret'.res = "ok" =>
                      job_start' = job_start (+)
                                   SetToBag({[job |-> Greatest(WorkerRows(w))]})
                /\ ret'.res # "ok" => job_start' = job_start
                /\ job_finish' = job_finish
          /\ (ret'.op = "cli_log_finish" /\ ret'.who = w) =>
                /\ (ret'.res = "ok") <=>
                      (WorkerRows(w) # {} /\ FinishRows(Greatest(WorkerRows(w))) = 0)
                /\ ret'.res = "ok" =>
                      BagCardinality(job_finish') = BagCardinality(job_finish) + 1
                /\ ret'.res # "ok" => job_finish' = job_finish
                /\ job_start' = job_start]_vars

\* log-finish has just failed for a worker whose latest job is finished
\* while an older job of that worker has no finish row.
C12_Witness ==
    /\ ret.op = "cli_log_finish"
    /\ ret.res = "err"
    /\ FinishRows(ret.id) = 1
    /\ \E j \in WorkerRows(ret.who) : j < ret.id /\ FinishRows(j) = 0
    /\ \E v \in Workers : WorkerRows(v) = {}

\* A call of open returns in this step.
OpenReturns == ret'.op = "open" /\ lc'.op = "idle"

\* C13: open on a store whose version is above DB_VERSION returns DbTooNew
\* with the version found and changes nothing in the store.
C13_TooNewRefused ==
    [][(get_version > DB_VERSION /\ lc.op = "idle" /\ OpenReturns) =>
          /\ ret'.res = "too_new"
          /\ ret'.id = get_version
          /\ store' = store]_vars

\* open has refused a store of a newer version that holds tasks and jobs.
C13_Witness ==
    /\ ret.op = "open"
    /\ ret.res = "too_new"
    /\ ret.id = DB_VERSION + 1
    /\ get_version = DB_VERSION + 1
    /\ tasks # <<>>
    /\ jobs # <<>>

\* The version of the store as committed: inside the transaction of
\* upgrade it is the one the transaction began with.
Committed == IF lc.op = "open" /\ lc.k >= 1 THEN lc.snap ELSE store
CommittedVersion == IF Committed[1] = <<>> THEN 0 ELSE Committed[1][1]

\* open has returned Ok.
OpenedOk == lc.op = "idle" /\ ret.op = "open" /\ ret.res = "ok"

\* C14: open on a store of a version below DB_VERSION runs the upgrade steps
\* in turn, each in a transaction of its own whose last write raises the
\* version and whose commit leaves a higher version than it began with; an
\* open that returns Ok leaves the store at DB_VERSION with the tables of
\* that version; and with no failure of the storage layer the call returns
\* Ok.
C14_UpgradesToCurrent ==
    /\ [][/\ (lc.op = "open" /\ lc.k = UpgradeStmts + 1 /\ lc'.k = 0) =>
                /\ get_version' > lc.snap[1][1]
                /\ store' = store
          /\ (lc.op = "open" /\ lc.k >= 1 /\ lc'.op = "open" /\ lc'.k >= 1) =>
                /\ lc'.snap = lc.snap
                /\ (get_version' # get_version) <=> (lc'.k = UpgradeStmts)
          /\ (OpenReturns /\ ret'.res = "ok") =>
                /\ get_version' = DB_VERSION
                /\ tables' = V2Tables]_vars
    /\ (lc.op = "open") ~> (OpenedOk /\ get_version = DB_VERSION)

\* open has returned Ok on a store that was of version 1 and held tasks and
\* assignments: they are now task and job rows.
C14_Witness ==
    /\ OpenedOk
    /\ get_version = DB_VERSION
    /\ data_unique
    /\ Len(tasks) = MaxTasks
    /\ Len(jobs) = MaxJobs
    /\ \A t \in TaskIds : tasks[t].priority = None

\* C15: when a statement of an upgrade step fails, the check of the foreign
\* keys at its end included, the store is again what it was when the step
\* began, version included, and open finds the version to upgrade from.
C15_StepAllOrNothing ==
    [][(lc.op = "open" /\ lc.k >= 1 /\ OpenReturns /\ ret'.res = "err") =>
          /\ store' = lc.snap
          /\ get_version' = lc.snap[1][1]
          /\ VersionMatch(get_version') = "upgrade_v1"
          /\ tables' = V1Tables]_vars

\* An upgrade step has failed at its last statement, after the version was
\* written: the store is of version 1 with its assignments in table worker.
C15_Witness ==
    /\ ret.op = "open"
    /\ ret.res = "err"
    /\ ret.id = UpgradeStmts
    /\ lc.op = "idle"
    /\ get_version = DB_VERSION_V1
    /\ tables = V1Tables
    /\ worker # <<>>
    /\ jobs = <<>>

\* C16: the committed version never decreases, and when create or open
\* returns Ok it is at most DB_VERSION.
C16_VersionMonotone ==
    [][/\ CommittedVersion' >= CommittedVersion
       /\ (ret'.op = "create" /\ ret'.res = "ok" /\ lc'.op = "idle") =>
              get_version' <= DB_VERSION
       /\ (OpenReturns /\ ret'.res = "ok") => get_version' <= DB_VERSION]_vars

\* An upgrade from version 1 has been committed.
C16_Witness ==
    /\ OpenedOk
    /\ get_version = DB_VERSION
    /\ data_unique
    /\ tasks # <<>>

\* The store has been created: it has its version row.
Created == meta # <<>>

\* C17: create on a created store fails at its first statement and leaves
\* the store as it was, with its one version row.
C17_CreateTwiceFails ==
    [][(/\ Created
        /\ lc.op = "idle"
        /\ (lc'.op = "create" \/ (ret'.op = "create" /\ lc'.op = "idle"))) =>
          /\ ret'.op = "create"
          /\ ret'.res = "err"
          /\ lc'.op = "idle"
          /\ store' = store
          /\ Len(meta') = 1]_vars

\* create has failed on a store that holds tasks and jobs.
C17_Witness ==
    /\ ret.op = "create"
    /\ ret.res = "err"
    /\ lc.op = "idle"
    /\ Len(meta) = 1
    /\ get_version = DB_VERSION
    /\ tasks # <<>>
    /\ jobs # <<>>

\* C18: job_ids_vec returns the ids of the tasks that have more slots than
\* assignments, each once, in ascending order.
C18_ListsPendingAscending ==
    get_version = DB_VERSION =>
        /\ {job_ids_vec[i] : i \in DOMAIN job_ids_vec} =
               {t \in TaskIds : Max0(tasks[t].count - NClaims(t)) > 0}
        /\ \A i, j \in DOMAIN job_ids_vec : i < j => job_ids_vec[i] < job_ids_vec[j]

\* Of two tasks the first has fewer slots than assignments and the second,
\* of more than one slot, has one taken: only the second is listed.
C18_Witness ==
    /\ Len(tasks) = 2
    /\ tasks[1].count < NClaims(1)
    /\ NClaims(2) = 1
    /\ job_ids_vec = <<2>>

\* C19: a call of get_count returns max(0, count - assignments), also when
\* the count is below the assignments, and does not panic.
C19_RemainingNeverAborts ==
    ret.op = "get_count" =>
        /\ ret.res = "ok"
        /\ ret.id = Max0(tasks[ret.task].count - NClaims(ret.task))

\* C20: a take that returns a job appends one job row, for its worker and
\* the task JOB_Q selected; every step leaves the existing job rows as they
\* are, and only such a take adds one.
C20_JobRowsWriteOnce ==
    [][/\ Len(jobs') >= Len(jobs)
       /\ \A j \in DOMAIN jobs : jobs'[j] = jobs[j]
       /\ (ret'.op = "take" /\ ret'.res = "job") =>
              /\ Len(jobs') = Len(jobs) + 1
              /\ jobs'[Len(jobs')] = [task |-> JOB_Q, worker |-> ret'.who]
       /\ Len(jobs') # Len(jobs) => (ret'.op = "take" /\ ret'.res = "job")]_vars

\* A worker that holds a started and finished job has taken another one.
C20_Witness ==
    /\ TookJob
    /\ \E j \in WorkerRows(ret.who) :
           j < Len(jobs) /\ StartRows(j) = 1 /\ FinishRows(j) = 1
    /\ NewJob.worker = ret.who

----------------------------------------------------------------------------
\* C21: a take that commits creates a job row, of its worker, whose id is
\* above every id there was, and get_jobs returns every job id once, in
\* ascending order, the row just committed last.
C21_JobIdsFollowClaimOrder ==
    [][/\ {get_jobs[i] : i \in DOMAIN get_jobs} = DOMAIN jobs
       /\ \A i, j \in DOMAIN get_jobs : i < j => get_jobs[i] < get_jobs[j]
       /\ Len(jobs') # Len(jobs) =>
              /\ ret'.op = "take" /\ ret'.res = "job"
              /\ Len(get_jobs') = Len(get_jobs) + 1
              /\ \A i \in DOMAIN get_jobs :
                     /\ get_jobs'[i] = get_jobs[i]
                     /\ get_jobs[i] < get_jobs'[Len(get_jobs')]
              /\ jobs'[get_jobs'[Len(get_jobs')]].worker = ret'.who
              /\ pc[ret'.who] \in {"writing", "pending"}
              /\ pc'[ret'.who] = "idle"]_vars

\* Two connections have committed jobs in turn and a third take is under
\* way while the other connection has just committed.
C21_Witness ==
    /\ TookJob
    /\ Len(jobs) >= 2
    /\ jobs[Len(jobs)].worker # jobs[Len(jobs) - 1].worker
    /\ \E w \in Workers : pc[w] = "reading"

----------------------------------------------------------------------------
\* The value the log is to hold for an outcome: the exit code, 256 + the
\* signal, or 512.
StoredFor(o) ==
    CASE o.kind = "exit" -> o.n
      [] o.kind = "signal" -> 256 + o.n
      [] o.kind = "nostart" -> 512

\* C22: the finish row monitor stores holds the exit code of the command,
\* 256 + S for signal S, or 512 when the command could not be started, and
\* over exit codes 0..255 and signals 1..255 no two outcomes are stored as
\* the same value.
C22_OutcomeClassesDisjoint ==
    /\ \A o \in AllOutcomes : log_code(o) = StoredFor(o)
    /\ \A o1, o2 \in AllOutcomes : o1 # o2 => log_code(o1) # log_code(o2)
    /\ [][(ret'.op = "monitor" /\ ret'.res = "exit") =>
             \A j \in JobIds :
                 ret'.id = j =>
                     /\ FinishRows(j) = 0
                     /\ [job |-> j, result |-> StoredFor(ret'.outcome)]
                            \in DOMAIN job_finish']_vars

\* monitor has stored 256 + 9 for a command ended by signal 9, next to the
\* row of a job whose finish was logged by hand.
C22_Witness ==
    /\ ret.op = "monitor"
    /\ ret.res = "exit"
    /\ ret.outcome = Signaled(9)
    /\ [job |-> ret.id, result |-> 265] \in DOMAIN job_finish
    /\ \E x \in DOMAIN job_finish : x.job # ret.id

\* The value monitor is to end with for an outcome: the exit code, 128 +
\* the signal, or -1.
ReportedFor(o) ==
    CASE o.kind = "exit" -> o.n
      [] o.kind = "signal" -> 128 + o.n
      [] o.kind = "nostart" -> -1

\* The signal numbers the wait status of a process holds (seven bits).
WaitSignals == {g \in SignalNumbers : g < 128}

\* monitor has run its command to the end.
MonitorRan == ret.op = "monitor" /\ ret.res \in {"exit", "finish_err"}

\* C23 as stated: whenever monitor has run its command, it ends with the
\* exit code of the command, 128 + S for signal S or -1 when the command
\* could not be started, and with status zero exactly when the command
\* exited with code 0.
C23_ExitFollowsCommand ==
    MonitorRan =>
        /\ ret.exit = ReportedFor(ret.outcome)
        /\ (ExitStatus(ret.exit) = 0) <=> (ret.outcome = Exited(0))

\* C23 as amended: a monitor that has recorded the finish event ends with
\* the exit code of the command, 128 + S or -1, a value that for signals
\* and for a command not started is not the logged one, and with status
\* zero exactly when the command exited with code 0; a monitor whose
\* log_finish is rejected ends with the status of an error, whatever the
\* outcome of the command.
C23_ExitFollowsCommandWhenLogged ==
    /\ \A o \in {Exited(c) : c \in ExitCodes} \cup
                {Signaled(g) : g \in WaitSignals} \cup {NotStarted} :
           /\ my_exit(o) = ReportedFor(o)
           /\ (ExitStatus(my_exit(o)) = 0) <=> (o = Exited(0))
    /\ [](/\ (ret.op = "monitor" /\ ret.res = "exit") =>
                /\ ret.exit = ReportedFor(ret.outcome)
                /\ (ExitStatus(ret.exit) = 0) <=> (ret.outcome = Exited(0))
                /\ ret.outcome.kind # "exit" =>
                       [job |-> ret.id, result |-> ret.exit] \notin DOMAIN job_finish
          /\ (ret.op = "monitor" /\ ret.res = "finish_err") =>
                /\ ret.exit = CliExit("err")
                /\ FinishRows(ret.id) = 1)

\* monitor has ended with 128 + 9 for a command ended by signal 9 and has
\* logged 256 + 9 for the job.
C23_Witness ==
    /\ ret.op = "monitor"
    /\ ret.res = "exit"
    /\ ret.outcome = Signaled(9)
    /\ ret.exit = 137
    /\ [job |-> ret.id, result |-> 265] \in DOMAIN job_finish

\* The job row of the start event, and of the finish event of an outcome.
StartRow(j) == SetToBag({[job |-> j]})
FinishRowFor(j, o) == SetToBag({[job |-> j, result |-> StoredFor(o)]})

\* C24 as stated: a monitor for a worker that has a job records a start
\* event for the worker's current job and goes on to its command, and when
\* the command has ended, whatever its outcome, records a finish event for
\* that job, which then has both events.
C24_MonitorLogsBothEvents ==
    [][\A w \in Workers :
          /\ (ret'.op = "monitor" /\ ret'.who = w /\ pc[w] = "idle"
                  /\ WorkerRows(w) # {}) =>
                /\ ret'.res = "started"
                /\ job_start' = job_start (+) StartRow(Greatest(WorkerRows(w)))
          /\ (pc[w] = "running" /\ pc'[w] = "idle") =>
                \A j \in JobIds :
                    sel[w] = j =>
                        /\ ret'.res = "exit"
                        /\ job_finish' = job_finish (+) FinishRowFor(j, ret'.outcome)
                        /\ StartRows(j)' = 1 /\ FinishRows(j)' = 1]_vars

\* C24 as amended: a monitor for worker w goes on to its command exactly
\* when w has a job and the latest one has no start event, and has then
\* recorded the start event of that job and nothing else; otherwise it
\* fails and records nothing.  When the command has ended, in every outcome
\* class, it records the finish event of the same job, even when w has
\* claimed again meanwhile, unless the job has a finish event already, and
\* then it fails and records nothing.  Either way the job then has both
\* events, and log-start or log-finish for w succeeds only for a current
\* job that lacks the event.
C24_MonitorLogsBothEventsWhenFree ==
    [][\A w \in Workers :
          /\ (ret'.op = "monitor" /\ ret'.who = w /\ pc[w] = "idle") =>
                /\ (ret'.res = "started") <=>
                      (WorkerRows(w) # {} /\ StartRows(Greatest(WorkerRows(w))) = 0)
                /\ ret'.res = "started" =>
                      /\ job_start' = job_start (+) StartRow(Greatest(WorkerRows(w)))
                      /\ pc'[w] = "running"
                      /\ sel'[w] = Greatest(WorkerRows(w))
                /\ ret'.res # "started" => (job_start' = job_start /\ pc' = pc)
                /\ job_finish' = job_finish
          /\ (pc[w] = "running" /\ pc'[w] = "idle") =>
                /\ ret'.op = "monitor" /\ ret'.who = w /\ ret'.id = sel[w]
                /\ job_start' = job_start
                /\ \A j \in JobIds :
                      sel[w] = j =>
                          /\ (ret'.res = "exit") <=> (FinishRows(j) = 0)
                          /\ ret'.res = "exit" =>
                                job_finish' = job_finish (+) FinishRowFor(j, ret'.outcome)
                          /\ ret'.res # "exit" =>
                                (ret'.res = "finish_err" /\ job_finish' = job_finish)
                          /\ StartRows(j)' = 1 /\ FinishRows(j)' = 1
          /\ (ret'.op = "cli_log_start" /\ ret'.who = w /\ ret'.res = "ok") =>
                StartRows(Greatest(WorkerRows(w))) = 0
          /\ (ret'.op = "cli_log_finish" /\ ret'.who = w /\ ret'.res = "ok") =>
                FinishRows(Greatest(WorkerRows(w))) = 0]_vars

\* A monitor whose command could not be started has logged 512 for its job
\* while its worker has claimed another job meanwhile.
C24_Witness ==
    /\ ret.op = "monitor"
    /\ ret.res = "exit"
    /\ ret.outcome = NotStarted
    /\ current_job(ret.who) > ret.id
    /\ StartRows(ret.id) = 1
    /\ [job |-> ret.id, result |-> 512] \in DOMAIN job_finish
    /\ StartRows(current_job(ret.who)) = 0

\* C25: the take subcommand ends with status 0 when it got a job, with
\* status 1 when the store could not be opened, and with a status that is
\* neither when the store is open and no task has a free slot; the three
\* statuses differ from one another.
C25_NoWorkHasOwnStatus ==
    [][ret'.op = "cli_take" =>
          LET opens == get_version = DB_VERSION
              free == {t \in TaskIds : NClaims(t) < tasks[t].count}
          IN /\ (ret'.res = "err") <=> ~opens
             /\ (ret'.res = "none") <=> (opens /\ free = {})
             /\ (ret'.res = "job") <=> (opens /\ free # {})
             /\ ret'.res = "job" => (ret'.exit = 0 /\ Len(jobs') = Len(jobs) + 1)
             /\ ret'.res = "err" => (ret'.exit = 1 /\ jobs' = jobs)
             /\ ret'.res = "none" => (ret'.exit \notin {0, 1} /\ jobs' = jobs)]_vars

\* A take has found every slot of the two tasks of the store taken.
C25_Witness ==
    /\ ret.op = "cli_take"
    /\ ret.res = "none"
    /\ ret.exit = 2
    /\ Len(tasks) = 2
    /\ Len(jobs) >= 2

\* Task a comes before task b in (priority, id) order.
Before(a, b) ==
    \/ PrioOf(a) < PrioOf(b)
    \/ PrioOf(a) = PrioOf(b) /\ a < b

\* The task of the job row a take adds in this step.
Drawn == jobs'[Len(jobs')].task

C27_ReturnsTaskId ==
    [][(ret'.op = "take" /\ ret'.res = "job" /\ Len(jobs') = Len(jobs) + 1) =>
          /\ ret'.id = Drawn
          /\ ret'.data = tasks[Drawn].data
          /\ (TookJob /\ Drawn = NewJob.task) => ret'.id = ret.id]_vars

\* The second take from task 1, by another worker, has returned id 1; its
\* job row is row 2.
C27_Witness ==
    /\ TookJob
    /\ ret.id = 1
    /\ Len(jobs) = 2
    /\ jobs[1].task = 1 /\ jobs[2].task = 1
    /\ jobs[1].worker # jobs[2].worker
    /\ current_job(ret.who) = 2

\* C28: a create that fails or stops after some of its statements leaves
\* the storage with none of the structures of the store, so that a later
\* create finds nothing in its way.
C28_CreateAllOrNothing ==
    [][(lc.op = "create" /\ lc'.op = "idle" /\ ret'.op = "create"
            /\ ret'.res = "err") =>
          /\ tables' = {}
          /\ meta' = <<>>
          /\ \A k \in DOMAIN CreateOrder : CreateOrder[k] \notin tables']_vars

\* C29: log_start and log_finish, accepted or rejected, change no task row
\* and no job row; get_count of every task, job_ids_vec, current_job of
\* every worker and the task the next take draws from are what they were.
C29_LogsLeaveQueueAlone ==
    [][ret'.op \in {"log_start", "log_finish"} =>
          /\ tasks' = tasks
          /\ jobs' = jobs
          /\ \A t \in TaskIds : get_count(t)' = get_count(t)
          /\ job_ids_vec' = job_ids_vec
          /\ \A w \in Workers : current_job(w)' = current_job(w)
          /\ JOB_Q' = JOB_Q]_vars

\* A finish event has been accepted for a started job while a task still
\* has a free slot for the next take.
C29_Witness ==
    /\ ret.op = "log_finish"
    /\ ret.res = "ok"
    /\ StartRows(ret.id) = 1
    /\ JOB_Q # 0
    /\ job_ids_vec # <<>>

\* Every reference of a row names a row that exists: job.task a task,
\* job_start.job and job_finish.job a job, and in a store of version 1
\* worker.job a row of its table job.
RefsHold ==
    /\ \A i \in DOMAIN jobs : jobs[i].task \in DOMAIN tasks
    /\ \A x \in DOMAIN job_start : x.job \in DOMAIN jobs
    /\ \A x \in DOMAIN job_finish : x.job \in DOMAIN jobs
    /\ \A i \in DOMAIN worker : worker[i].job \in DOMAIN tasks

\* C30: every job row references a task and every start and finish event a
\* job, in every state and so after the commit of an upgrade from version
\* 1, which turns every assignment into a job row; log_start or log_finish
\* with an id that no job row has is rejected and stores nothing.
C30_ReferencesHold ==
    [][/\ RefsHold'
       /\ (ret'.op = "log_start" /\ ret'.id \notin DOMAIN jobs) =>
              (ret'.res = "err" /\ job_start' = job_start)
       /\ (ret'.op = "log_finish" /\ ret'.id \notin DOMAIN jobs) =>
              (ret'.res = "err" /\ job_finish' = job_finish)
       /\ (lc.op = "open" /\ lc.k = UpgradeStmts + 1 /\ lc'.op = "open") =>
              /\ Len(jobs') = Len(lc.snap[5])
              /\ \A i \in DOMAIN jobs' : jobs'[i].task = lc.snap[5][i].job]_vars

\* In a store upgraded from version 1 with its assignments a finish event
\* is logged for one job, and a start event for an id that no job has was
\* rejected.
C30_Witness ==
    /\ ret.op = "log_start"
    /\ ret.res = "err"
    /\ ret.id \notin DOMAIN jobs
    /\ data_unique
    /\ get_version = DB_VERSION
    /\ jobs # <<>>
    /\ job_finish # EmptyBag

\* The ids job_ids_vec returns, as a set.
Listed == {job_ids_vec[i] : i \in DOMAIN job_ids_vec}

C32_MigrationKeepsQueue ==
    [][(get_version = DB_VERSION_V1 /\ get_version' = DB_VERSION) =>
           /\ DOMAIN jobs' = DOMAIN worker
           /\ \A i \in DOMAIN worker :
                  jobs'[i] = [task |-> worker[i].job, worker |-> worker[i].data]
           /\ DOMAIN tasks' = DOMAIN tasks
           /\ \A t \in DOMAIN tasks :
                  /\ tasks'[t].data = tasks[t].data
                  /\ tasks'[t].count = tasks[t].count
                  /\ tasks'[t].priority = None
           /\ \A t \in DOMAIN tasks : get_count(t)' = get_count_v1(t)
           /\ Listed' = job_ids_vec_v1
           /\ JOB_Q' = JOB_Q_V1
           /\ JOB_Q' # 0 => JobOf(JOB_Q)'.data = tasks[JOB_Q_V1].data]_vars

\* A store of version 1 was opened with two tasks, one with all its slots
\* assigned and one with a slot left.
C32_Witness ==
    /\ ret.op = "open"
    /\ data_unique
    /\ get_version = DB_VERSION
    /\ Len(jobs) >= 2
    /\ \E t \in TaskIds : get_count(t) = 0
    /\ \E t \in TaskIds : get_count(t) > 0

\* Every task has as many job rows as its count.
AllAssigned == \A t \in TaskIds : worker_count(t) = tasks[t].count

\* No task has fewer job rows than its count.
AllServed == \A t \in TaskIds : worker_count(t) >= tasks[t].count

\* What a take leaves behind: one that returns an error or "no work" has
\* inserted no row, and a row is only inserted by a take that returns a job.
FailedTakeInsertsNothing ==
    /\ (ret'.op = "take" /\ ret'.res \in {"err", "none"}) => jobs' = jobs
    /\ jobs' # jobs => /\ ret'.op = "take" /\ ret'.res = "job"
                       /\ Len(jobs') = Len(jobs) + 1

Latest(j) == j = Greatest(WorkerRows(jobs[j].worker))

====
